---------------------------- MODULE Spec2Model ----------------------------
(***************************************************************************)
(* Model of the evaluation orchestration layer of the resume ranking       *)
(* engine: in src/ranking_logic.py the candidate normalizer, the prompt    *)
(* builder, call_llm, the reply parser parse_llm_json_response, the        *)
(* per-candidate loop of evaluate_candidates_with_llm with its             *)
(* canonicalization step and the final sort; the default backend of        *)
(* src/llm_backend.py; and the script src/app.py around them, with its     *)
(* startup checks and its report file.                                     *)
(*                                                                         *)
(* Text is a sequence of one-character strings.  Positions are 0-based, as *)
(* in Python.  Python values are records of one shape,                     *)
(* [t, n, s, items], tagged by t with the Python type name.                *)
(***************************************************************************)
EXTENDS Integers, Sequences, FiniteSets, TLC

(***************************************************************************)
(* Bounds of the model.                                                    *)
(***************************************************************************)
\* Largest number of candidates handed to evaluate_candidates_with_llm.
MaxCands == 3
\* Longest free text (over FreeAlphabet) handed to the parser.
MaxLen == 3

(***************************************************************************)
(* Python values.                                                          *)
(***************************************************************************)
PyVal(t, n, s, items) == [t |-> t, n |-> n, s |-> s, items |-> items]
None == PyVal("NoneType", 0, <<>>, <<>>)
PyBool(b) == PyVal("bool", IF b THEN 1 ELSE 0, <<>>, <<>>)
\* int: arbitrary precision, kept as its decimal digits (no leading zero).
PyInt(digits) == PyVal("int", 0, digits, <<>>)
\* float: a finite integral value n, or NaN.
PyFloat(n) == PyVal("float", n, <<>>, <<>>)
NaN == PyVal("float", 0, <<"nan">>, <<>>)
PyStr(s) == PyVal("str", 0, s, <<>>)
PyList(items) == PyVal("list", 0, <<>>, items)
\* dict: its items in insertion order, each [k |-> key text, v |-> value].
PyDict(items) == PyVal("dict", 0, <<>>, items)

IsNaN(v) == v.t = "float" /\ v.s # <<>>

(***************************************************************************)
(* Text helpers: Python's str operations on sequences of characters.       *)
(***************************************************************************)
QUOTE == "\""
NL == "\n"
\* The backquote character (written ^: the TLA+ lexer reserves the backquote).
BACKTICK == "^"
Whitespace == {" ", NL}
DigitChars == {"0", "1", "2", "3", "4", "5", "6", "7", "8", "9"}
Fence == <<BACKTICK, BACKTICK, BACKTICK>>

\* s[i:i+1] as a character, "" past the end.
At(s, i) == IF i >= 0 /\ i < Len(s) THEN s[i + 1] ELSE ""
\* s[i:j]
Slice(s, i, j) ==
    LET lo == IF i < 0 THEN 0 ELSE i
        hi == IF j > Len(s) THEN Len(s) ELSE j
    IN IF hi <= lo THEN <<>> ELSE SubSeq(s, lo + 1, hi)
StartsWith(s, p) == Len(s) >= Len(p) /\ Slice(s, 0, Len(p)) = p
EndsWith(s, p) == Len(s) >= Len(p) /\ Slice(s, Len(s) - Len(p), Len(s)) = p
\* s.find(c): the first position of c, -1 when absent.
Find(s, c) ==
    IF \E i \in 1..Len(s) : s[i] = c
    THEN (CHOOSE i \in 1..Len(s) : s[i] = c /\ \A j \in 1..(i - 1) : s[j] # c) - 1
    ELSE -1
\* s.rfind(c): the last position of c, -1 when absent.
RFind(s, c) ==
    IF \E i \in 1..Len(s) : s[i] = c
    THEN (CHOOSE i \in 1..Len(s) : s[i] = c /\ \A j \in (i + 1)..Len(s) : s[j] # c) - 1
    ELSE -1
\* s.strip()
Strip(s) ==
    IF \A i \in 1..Len(s) : s[i] \in Whitespace THEN <<>>
    ELSE LET first == CHOOSE i \in 1..Len(s) :
                        s[i] \notin Whitespace /\ \A j \in 1..(i - 1) : s[j] \in Whitespace
             last == CHOOSE i \in 1..Len(s) :
                        s[i] \notin Whitespace /\ \A j \in (i + 1)..Len(s) : s[j] \in Whitespace
         IN SubSeq(s, first, last)
\* s.replace("\n", " ")
FlattenNewlines(s) == [i \in 1..Len(s) |-> IF s[i] = NL THEN " " ELSE s[i]]
\* Position of the first non-whitespace character at or after i (WHITESPACE.match of json.decoder).
SkipWs(s, i) ==
    IF \E j \in i..(Len(s) - 1) : At(s, j) \notin Whitespace
    THEN CHOOSE j \in i..(Len(s) - 1) :
            At(s, j) \notin Whitespace /\ \A k \in i..(j - 1) : At(s, k) \in Whitespace
    ELSE IF i > Len(s) THEN i ELSE Len(s)

RECURSIVE DigitsOf(_)
\* str(n) for a natural number n.
DigitsOf(n) ==
    LET d == <<"0", "1", "2", "3", "4", "5", "6", "7", "8", "9">>[(n % 10) + 1]
    IN IF n < 10 THEN <<d>> ELSE DigitsOf(n \div 10) \o <<d>>

DigitValue(c) == CHOOSE v \in 0..9 : DigitsOf(v) = <<c>>
RECURSIVE NatOf(_)
\* The value of a digit string short enough to be computed.
NatOf(digits) ==
    IF digits = <<>> THEN 0
    ELSE 10 * NatOf(SubSeq(digits, 1, Len(digits) - 1)) + DigitValue(digits[Len(digits)])

(***************************************************************************)
(* json.loads, on texts whose number literals are unsigned integers and    *)
(* whose strings hold no backslash.                                        *)
(***************************************************************************)
JsonOk(val, end) == [ok |-> TRUE, val |-> val, end |-> end, msg |-> ""]
\* json.JSONDecodeError(msg, doc, pos)
JsonErr(msg, pos) == [ok |-> FALSE, val |-> None, end |-> pos, msg |-> msg]

\* py_scanstring(s, end): end is the position after the opening quote.
ScanString(s, end) ==
    LET stops == {j \in end..(Len(s) - 1) : At(s, j) \in {QUOTE, NL}}
    IN IF stops = {}
       THEN JsonErr("Unterminated string starting at", end - 1)
       ELSE LET j == CHOOSE k \in stops : \A m \in stops : k <= m
            IN IF At(s, j) = QUOTE
               THEN JsonOk(PyStr(Slice(s, end, j)), j + 1)
               ELSE JsonErr("Invalid control character at", j)

\* NUMBER_RE.match(s, idx) for (0|[1-9][0-9]*): the position after the literal.
NumberEnd(s, idx) ==
    IF At(s, idx) = "0" THEN idx + 1
    ELSE IF \E j \in idx..(Len(s) - 1) : At(s, j) \notin DigitChars
         THEN CHOOSE j \in idx..(Len(s) - 1) :
                At(s, j) \notin DigitChars /\ \A k \in idx..(j - 1) : At(s, k) \in DigitChars
         ELSE Len(s)

\* dict(pairs) adding one pair: a repeated key keeps its place and takes the new value.
DictPut(items, k, v) ==
    IF \E i \in 1..Len(items) : items[i].k = k
    THEN [i \in 1..Len(items) |-> IF items[i].k = k THEN [k |-> k, v |-> v] ELSE items[i]]
    ELSE Append(items, [k |-> k, v |-> v])

RECURSIVE ScanOnce(_, _), ObjectPairs(_, _, _), ArrayItems(_, _, _)

\* After a pair: "}" ends the object, "," must be followed by the next key.
NextKey(s, pairs, nxt) ==
    IF At(s, nxt) # QUOTE
    THEN JsonErr("Expecting property name enclosed in double quotes", nxt)
    ELSE ObjectPairs(s, nxt + 1, pairs)
AfterPair(s, pairs, after) ==
    IF At(s, after) = "}" THEN JsonOk(PyDict(pairs), after + 1)
    ELSE IF At(s, after) # "," THEN JsonErr("Expecting ',' delimiter", after)
    ELSE NextKey(s, pairs, SkipWs(s, after + 1))
AfterValue(s, items, k, value) ==
    IF ~value.ok THEN value
    ELSE AfterPair(s, DictPut(items, k, value.val), SkipWs(s, value.end))
AfterColon(s, items, k, colon) ==
    IF At(s, colon) # ":" THEN JsonErr("Expecting ':' delimiter", colon)
    ELSE AfterValue(s, items, k, ScanOnce(s, SkipWs(s, colon + 1)))
AfterKey(s, items, key) ==
    IF ~key.ok THEN key
    ELSE AfterColon(s, items, key.val.s,
                    IF At(s, key.end) = ":" THEN key.end ELSE SkipWs(s, key.end))
\* The loop of JSONObject: end is the position after the opening quote of a key.
ObjectPairs(s, end, items) == AfterKey(s, items, ScanString(s, end))

\* JSONObject: idx is the position of "{".
ObjectAt(s, idx, nxt) ==
    IF At(s, nxt) = "}" /\ At(s, idx + 1) # QUOTE THEN JsonOk(PyDict(<<>>), nxt + 1)
    ELSE IF At(s, nxt) # QUOTE
    THEN JsonErr("Expecting property name enclosed in double quotes", nxt)
    ELSE ObjectPairs(s, nxt + 1, <<>>)

AfterItem(s, vals, after) ==
    IF At(s, after) = "]" THEN JsonOk(PyList(vals), after + 1)
    ELSE IF At(s, after) # "," THEN JsonErr("Expecting ',' delimiter", after)
    ELSE ArrayItems(s, SkipWs(s, after + 1), vals)
AfterItemValue(s, items, value) ==
    IF ~value.ok THEN value
    ELSE AfterItem(s, Append(items, value.val), SkipWs(s, value.end))
\* The loop of JSONArray: end is the position of the next value.
ArrayItems(s, end, items) == AfterItemValue(s, items, ScanOnce(s, end))

\* JSONArray: nxt is the position after "[" and whitespace.
ArrayAt(s, nxt) ==
    IF At(s, nxt) = "]" THEN JsonOk(PyList(<<>>), nxt + 1) ELSE ArrayItems(s, nxt, <<>>)

\* A number literal that starts at idx and ends before end.
NumberAt(s, idx, end) == JsonOk(PyInt(Slice(s, idx, end)), end)

\* scanner.scan_once(s, idx)
ScanOnce(s, idx) ==
    CASE At(s, idx) = QUOTE -> ScanString(s, idx + 1)
      [] At(s, idx) = "{" ->
            ObjectAt(s, idx, IF At(s, idx + 1) = QUOTE THEN idx + 1 ELSE SkipWs(s, idx + 1))
      [] At(s, idx) = "[" -> ArrayAt(s, SkipWs(s, idx + 1))
      [] At(s, idx) = "n" /\ Slice(s, idx, idx + 4) = <<"n", "u", "l", "l">> ->
            JsonOk(None, idx + 4)
      [] At(s, idx) = "t" /\ Slice(s, idx, idx + 4) = <<"t", "r", "u", "e">> ->
            JsonOk(PyBool(TRUE), idx + 4)
      [] At(s, idx) = "f" /\ Slice(s, idx, idx + 5) = <<"f", "a", "l", "s", "e">> ->
            JsonOk(PyBool(FALSE), idx + 5)
      [] At(s, idx) \in DigitChars -> NumberAt(s, idx, NumberEnd(s, idx))
      [] At(s, idx) = "N" /\ Slice(s, idx, idx + 3) = <<"N", "a", "N">> ->
            JsonOk(NaN, idx + 3)
      [] OTHER -> JsonErr("Expecting value", idx)

\* The end of JSONDecoder.decode: only whitespace may follow the value.
CheckEnd(s, obj, end) ==
    IF ~obj.ok THEN obj
    ELSE IF end # Len(s) THEN JsonErr("Extra data", end)
    ELSE obj
SkipWsAfter(s, obj) == CheckEnd(s, obj, SkipWs(s, obj.end))

\* json.loads(s): JSONDecoder.decode
JsonLoads(s) == SkipWsAfter(s, ScanOnce(s, SkipWs(s, 0)))

(***************************************************************************)
(* parse_llm_json_response                                                 *)
(***************************************************************************)
\* Length of the snippet preview in the error message.
PreviewLen == 200

ParseOk(val) == [ok |-> TRUE, val |-> val, msg |-> <<>>]
\* raise ValueError(msg)
ParseError(msg) == [ok |-> FALSE, val |-> None, msg |-> msg]

NoObjectMsg == <<"No JSON object found in LLM response">>

\* if text.endswith(fence): text = text[:-3].strip()
StripTrailingFence(text) ==
    IF EndsWith(text, Fence) THEN Strip(Slice(text, 0, Len(text) - 3)) ELSE text

\* Mutant of StripLeadingFence: the fence line is cut at the last newline.
StripLeadingFenceLastNewline(text) ==
    IF StartsWith(text, Fence) /\ RFind(text, NL) # -1
    THEN Slice(text, RFind(text, NL) + 1, Len(text))
    ELSE text

\* if text.startswith(fence): drop the text up to the first newline, if there is one
StripLeadingFence(text) ==
    IF StartsWith(text, Fence) /\ Find(text, NL) # -1
    THEN Slice(text, Find(text, NL) + 1, Len(text))
    ELSE text

\* Mutant of HasObject: only the absence of both braces is refused.
HasObjectEitherBrace(start, end) == ~(start = -1 /\ end = -1)

\* The guard on the positions of the first "{" and the last "}".
HasObject(start, end) == ~(start = -1 \/ end = -1 \/ end < start)

\* The ValueError raised when the snippet, and the snippet with "}" appended, do not parse.
SnippetError(e, snippet) ==
    ParseError(<<"Failed to parse JSON snippet: ", e.msg, " (pos ">> \o DigitsOf(e.end)
               \o <<"). Snippet preview: ">> \o FlattenNewlines(Slice(snippet, 0, PreviewLen)))

\* except json.JSONDecodeError: the outcome of json.loads(snippet + "}")
RepairOutcome(snippet, first, second) ==
    IF second.ok THEN ParseOk(second.val) ELSE SnippetError(first, snippet)
\* try: return json.loads(snippet)
FirstOutcome(snippet, first) ==
    IF first.ok THEN ParseOk(first.val)
    ELSE RepairOutcome(snippet, first, JsonLoads(snippet \o <<"}">>))
ParseSnippet(snippet) == FirstOutcome(snippet, JsonLoads(snippet))
\* start = text.find("{"); end = text.rfind("}")
ParseBetween(text, start, end) ==
    IF ~HasObject(start, end) THEN ParseError(NoObjectMsg)
    ELSE ParseSnippet(Slice(text, start, end + 1))
ParseText(text) == ParseBetween(text, Find(text, "{"), RFind(text, "}"))

ParseLlmJsonResponse(raw) == ParseText(StripTrailingFence(StripLeadingFence(Strip(raw))))

(***************************************************************************)
(* Python operations used by the canonicalization step.                    *)
(***************************************************************************)
\* d.get(key, default)
Get(d, key, default) ==
    IF \E i \in 1..Len(d.items) : d.items[i].k = key
    THEN d.items[CHOOSE i \in 1..Len(d.items) : d.items[i].k = key].v
    ELSE default

\* key in d
HasItem(d, key) == \E i \in 1..Len(d.items) : d.items[i].k = key

\* bool(v)
Truthy(v) ==
    CASE v.t = "NoneType" -> FALSE
      [] v.t = "bool" -> v.n = 1
      [] v.t = "int" -> v.s # <<"0">>
      [] v.t = "float" -> IsNaN(v) \/ v.n # 0
      [] v.t = "str" -> v.s # <<>>
      [] OTHER -> v.items # <<>>

\* isinstance(v, (int, float)): bool is a subclass of int.
IsNumber(v) == v.t \in {"int", "float", "bool"}

\* v * 10 for a number v.
Times10(v) ==
    CASE v.t = "bool" -> PyInt(IF v.n = 1 THEN <<"1", "0">> ELSE <<"0">>)
      [] v.t = "int" -> PyInt(IF v.s = <<"0">> THEN v.s ELSE v.s \o <<"0">>)
      [] OTHER -> IF IsNaN(v) THEN v ELSE PyFloat(v.n * 10)

\* The largest float has 309 digits: an int of more digits does not convert.
\* (The int literals of the model have at most 9 digits, or more than 309.)
FloatMaxDigits == 309

\* float(v) for a number v: [ok, val], ok false for OverflowError.
ToFloat(v) ==
    CASE v.t = "bool" -> [ok |-> TRUE, val |-> PyFloat(v.n)]
      [] v.t = "int" -> IF Len(v.s) > FloatMaxDigits
                        THEN [ok |-> FALSE, val |-> None]
                        ELSE [ok |-> TRUE, val |-> PyFloat(NatOf(v.s))]
      [] OTHER -> [ok |-> TRUE, val |-> v]

RECURSIVE StrOf(_), Repr(_), ReprJoin(_, _)
\* repr(v)
Repr(v) == IF v.t = "str" THEN <<"'">> \o v.s \o <<"'">> ELSE StrOf(v)
\* ", ".join of the reprs of list items (dict = FALSE) or of dict items.
ReprJoin(items, dict) ==
    IF items = <<>> THEN <<>>
    ELSE LET one == IF dict
                    THEN <<"'">> \o items[1].k \o <<"'", ":", " ">> \o Repr(items[1].v)
                    ELSE Repr(items[1])
         IN IF Len(items) = 1 THEN one
            ELSE one \o <<",", " ">> \o ReprJoin(Tail(items), dict)
\* str(v)
StrOf(v) ==
    CASE v.t = "str" -> v.s
      [] v.t = "NoneType" -> <<"N", "o", "n", "e">>
      [] v.t = "bool" -> IF v.n = 1 THEN <<"T", "r", "u", "e">> ELSE <<"F", "a", "l", "s", "e">>
      [] v.t = "int" -> v.s
      [] v.t = "float" -> IF IsNaN(v) THEN <<"n", "a", "n">> ELSE DigitsOf(v.n) \o <<".", "0">>
      [] v.t = "list" -> <<"[">> \o ReprJoin(v.items, FALSE) \o <<"]">>
      [] OTHER -> <<"{">> \o ReprJoin(v.items, TRUE) \o <<"}">>

(***************************************************************************)
(* The canonical result of one candidate.                                  *)
(***************************************************************************)
ID == <<"i", "d">>
NAME == <<"n", "a", "m", "e">>
SCORE == <<"s", "c", "o", "r", "e">>
BREAKDOWN == <<"b", "r", "e", "a", "k", "d", "o", "w", "n">>
PASSED_REQUIRED == <<"p", "a", "s", "s", "e", "d", "_", "r", "e", "q", "u", "i", "r", "e", "d">>
REASONS == <<"r", "e", "a", "s", "o", "n", "s">>
EXPLANATION == <<"e", "x", "p", "l", "a", "n", "a", "t", "i", "o", "n">>

Result(id, name, llm_score, score_10, breakdown, passed, reasons, raw_out, explanation) ==
    [id |-> id, name |-> name, llm_score |-> llm_score, score_10 |-> score_10,
     breakdown |-> breakdown, passed_required |-> passed, reasons |-> reasons,
     raw_llm_output |-> raw_out, explanation |-> explanation]

\* The record appended when call_llm or parse_llm_json_response raised e.
FailureResult(cand, e) ==
    Result(Get(cand, ID, None), Get(cand, NAME, None), None, None, PyDict(<<>>),
           PyBool(FALSE), PyList(<<PyStr(<<"LLM error: ">> \o e)>>), None, None)

\* score_10 = (score * 10) if isinstance(score, (int, float)) else None
Score10(score) == IF IsNumber(score) THEN Times10(score) ELSE None

Breakdown(parsed) ==
    IF Get(parsed, BREAKDOWN, PyDict(<<>>)).t = "dict"
    THEN Get(parsed, BREAKDOWN, PyDict(<<>>))
    ELSE PyDict(<<>>)

\* Mutant of PassedRequired: the value is taken as it is, without bool().
PassedRequiredAsIs(parsed) == Get(parsed, PASSED_REQUIRED, PyBool(FALSE))

\* passed = bool(parsed.get("passed_required", False))
PassedRequired(parsed) == PyBool(Truthy(Get(parsed, PASSED_REQUIRED, PyBool(FALSE))))

\* reasons = parsed.get("reasons") or []
Reasons(parsed) ==
    IF Truthy(Get(parsed, REASONS, None)) THEN Get(parsed, REASONS, None) ELSE PyList(<<>>)

\* list(reasons) if isinstance(reasons, list) else [str(reasons)]
ReasonsList(reasons) ==
    IF reasons.t = "list" THEN reasons ELSE PyList(<<PyStr(StrOf(reasons))>>)

\* float(x) if isinstance(x, (int, float)) else None
FloatOrNone(x) == IF IsNumber(x) THEN ToFloat(x) ELSE [ok |-> TRUE, val |-> None]

\* The record built from a parsed reply: [ok, val], ok false when float() raises.
CanonicalResult(cand, parsed, raw_out) ==
    LET score == Get(parsed, SCORE, None)
        llm_score == FloatOrNone(score)
        score_10 == FloatOrNone(Score10(score))
    IN [ok |-> llm_score.ok /\ score_10.ok,
        val |-> Result(Get(cand, ID, None), Get(cand, NAME, None), llm_score.val, score_10.val,
                       Breakdown(parsed), PassedRequired(parsed), ReasonsList(Reasons(parsed)),
                       PyStr(raw_out), Get(parsed, EXPLANATION, None))]

(***************************************************************************)
(* normalize_candidate and build_prompt_for_candidate.  A call is given the *)
(* caller's objects and returns [ret, candidate, config]: the value        *)
(* returned and the caller's objects as the call leaves them.              *)
(***************************************************************************)
EDUCATION == <<"education">>
SKILLS == <<"skills">>
GENERAL_SKILLS == <<"general_skills">>
PERSONAL_INFORMATION == <<"personal_information">>
AVAILABLE_TYPES_OF_WORK == <<"available_types_of_work">>

\* c.setdefault(key, default), as the dict it leaves
SetDefault(c, key, default) ==
    IF HasItem(c, key) THEN c ELSE PyDict(Append(c.items, [k |-> key, v |-> default]))

\* The five setdefault calls on c.
WithDefaults(c) ==
    SetDefault(SetDefault(SetDefault(SetDefault(SetDefault(c,
        EDUCATION, PyDict(<<>>)),
        SKILLS, PyDict(<<>>)),
        GENERAL_SKILLS, PyList(<<>>)),
        PERSONAL_INFORMATION, PyDict(<<>>)),
        AVAILABLE_TYPES_OF_WORK, PyList(<<>>))

\* Mutant of NormalizeCandidate: c = raw, so the defaults are set in the argument.
NormalizeCandidateInPlace(raw) == [ret |-> WithDefaults(raw), raw |-> WithDefaults(raw)]

\* normalize_candidate(raw): c = dict(raw) is a new dict, raw is left as it was.
NormalizeCandidate(raw) == [ret |-> WithDefaults(raw), raw |-> raw]

\* Spaces of json.dumps(indent=2) at a nesting level.
IndentWidth == 2
Indent(level) == [i \in 1..(IndentWidth * level) |-> " "]

\* encode_basestring: a string in quotes, with its quotes, backslashes and newlines escaped.
RECURSIVE Escaped(_)
Escaped(chars) ==
    IF chars = <<>> THEN <<>>
    ELSE (CASE chars[1] = QUOTE -> <<"\\", QUOTE>>
            [] chars[1] = "\\" -> <<"\\", "\\">>
            [] chars[1] = NL -> <<"\\", "n">>
            [] OTHER -> <<chars[1]>>) \o Escaped(Tail(chars))
EncodeString(chars) == <<QUOTE>> \o Escaped(chars) \o <<QUOTE>>

RECURSIVE JsonDumps(_, _), DumpItems(_, _, _)
\* The items of a list (dict = FALSE) or dict, one per line at the given level.
DumpItems(items, dict, level) ==
    LET one == IF dict
               THEN EncodeString(items[1].k) \o <<":", " ">> \o JsonDumps(items[1].v, level)
               ELSE JsonDumps(items[1], level)
    IN IF Len(items) = 1 THEN one
       ELSE one \o <<",", NL>> \o Indent(level) \o DumpItems(Tail(items), dict, level)
\* json.dumps(v, ensure_ascii=False, indent=2), v at the given nesting level
JsonDumps(v, level) ==
    CASE v.t = "NoneType" -> <<"n", "u", "l", "l">>
      [] v.t = "bool" -> IF v.n = 1 THEN <<"t", "r", "u", "e">> ELSE <<"f", "a", "l", "s", "e">>
      [] v.t = "int" -> v.s
      [] v.t = "float" -> IF IsNaN(v) THEN <<"N", "a", "N">> ELSE DigitsOf(v.n) \o <<".", "0">>
      [] v.t = "str" -> EncodeString(v.s)
      [] v.t = "list" ->
            IF v.items = <<>> THEN <<"[", "]">>
            ELSE <<"[", NL>> \o Indent(level + 1) \o DumpItems(v.items, FALSE, level + 1)
                 \o <<NL>> \o Indent(level) \o <<"]">>
      [] OTHER ->
            IF v.items = <<>> THEN <<"{", "}">>
            ELSE <<"{", NL>> \o Indent(level + 1) \o DumpItems(v.items, TRUE, level + 1)
                 \o <<NL>> \o Indent(level) \o <<"}">>

PromptHead ==
    <<"You are an assistant that scores candidates for a software engineering role.\n",
      "Return a single STRICT JSON object EXACTLY in the format shown in the example.\n",
      "Important: The response must be valid JSON, with keys and strings in double quotes, no comments, no trailing commas, and no Markdown code fences. Respond with ONLY the JSON object and nothing else.\n\n",
      "Candidate (input):\n">>
PromptConfig == <<"\n\n", "Config (rules):\n">>
PromptTail ==
    <<"\n\n", "RESPONSE FORMAT EXAMPLE (must be valid JSON):\n",
      "{\n",
      "  \"score\": 0.82,\n",
      "  \"breakdown\": {\n",
      "    \"experience\": 0.9,\n",
      "    \"education\": 0.6,\n",
      "    \"general\": 0.7,\n",
      "    \"optional_bonus\": 0.05\n",
      "  },\n",
      "  \"passed_required\": true,\n",
      "  \"reasons\": [\"Short explanation here\"],\n",
      "  \"explanation\": \"One or two sentence explanation\"\n",
      "}\n\n",
      "Score the candidate now and return only the JSON object. Do not wrap it in backticks or markdown.">>

\* The prompt text made from the normalized candidate and the config.
PromptText(cand, config) ==
    PromptHead \o JsonDumps(cand, 0) \o PromptConfig \o JsonDumps(config, 0) \o PromptTail

\* Mutant of BuildPrompt: the candidate is normalized in place.
BuildPromptInPlace(candidate, config) ==
    [ret |-> PyStr(PromptText(WithDefaults(candidate), config)),
     candidate |-> WithDefaults(candidate), config |-> config]

\* build_prompt_for_candidate(candidate, config)
BuildPrompt(candidate, config) ==
    [ret |-> PyStr(PromptText(NormalizeCandidate(candidate).ret, config)),
     candidate |-> NormalizeCandidate(candidate).raw, config |-> config]

(***************************************************************************)
(* call_llm and llm_backend.score_candidate.  One invocation meets one      *)
(* behaviour of the network, net: requests.post raises ("exception",       *)
(* "timeout"), or gives a response [status, text, json, data], where json  *)
(* tells whether the body decodes and data is the decoded body.            *)
(***************************************************************************)
\* return value of a call
Returned(val) == [ok |-> TRUE, val |-> val]
\* raise SomeError(msg): str(e) is msg
RaisedError(msg) == [ok |-> FALSE, val |-> msg]

NetFailure(kind, msg) ==
    [kind |-> kind, status |-> 0, text |-> <<>>, json |-> FALSE, data |-> None, msg |-> msg]
Response(code, text, json, data) ==
    [kind |-> "response", status |-> code, text |-> text, json |-> json, data |-> data,
     msg |-> <<>>]
\* No network behaviour: the invocation went to an injected client.
NoNet == NetFailure("none", <<>>)

\* bool(CLOUDFLARE_API_TOKEN and CLOUDFLARE_ACCOUNT_ID)
is_ollama_installed(e) == e.token # <<>> /\ e.account # <<>>

\* _get_cloudflare_config(None): the message of the RuntimeError it raises, <<>> when none.
ConfigErrorOf(e) ==
    IF e.account = <<>> THEN <<"Missing CLOUDFLARE_ACCOUNT_ID environment variable.">>
    ELSE IF e.token = <<>> THEN <<"Missing CLOUDFLARE_API_TOKEN environment variable.">>
    ELSE IF e.model = <<>>
    THEN <<"Cloudflare model name is empty. Set CLOUDFLARE_MODEL or pass model explicitly.">>
    ELSE <<>>

\* Length of the response text quoted in the error message.
ErrorTextLen == 500

\* resp.ok of requests: false for the statuses 400 to 599.
RespOk(code) == ~(400 <= code /\ code < 600)

\* d.get(key) or d.get(other), for the content of a chat message
ContentOf(msg) ==
    IF Truthy(Get(msg, <<"content">>, None)) THEN Get(msg, <<"content">>, None)
    ELSE Get(msg, <<"message">>, None)

\* The text of a result["response"] or result["output"] value.
MessageText(msg) ==
    IF msg.t = "dict" THEN ContentOf(msg)
    ELSE IF msg.t = "str" THEN msg
    ELSE None

\* The chat-style fields of result, in the order the code tries them.
ResultText(result) ==
    IF result.t # "dict" THEN None
    ELSE IF HasItem(result, <<"response">>) THEN MessageText(Get(result, <<"response">>, None))
    ELSE IF HasItem(result, <<"output">>) THEN MessageText(Get(result, <<"output">>, None))
    ELSE Get(result, <<"output_text">>, None)

\* The reply extracted from the decoded body data, a dict.
ExtractText(data) ==
    LET got == Get(data, <<"result">>, None)
        result == IF Truthy(got) THEN got ELSE PyDict(<<>>)
        text == ResultText(result)
        text2 == IF ~Truthy(text) /\ result.t = "str" THEN result ELSE text
    IN IF Truthy(text2) THEN text2 ELSE PyStr(StrOf(data))

\* data = resp.json() and what follows it.
ReplyOfBody(net) ==
    IF ~net.json THEN RaisedError(<<"Expecting value: line 1 column 1 (char 0)">>)
    ELSE IF net.data.t # "dict"
    THEN RaisedError(<<"'", net.data.t, "' object has no attribute 'get'">>)
    ELSE Returned(ExtractText(net.data).s)

\* Mutant of ScoreCandidate: a transport failure or an error status gives an empty reply.
ScoreCandidateSwallows(e, net) ==
    IF ConfigErrorOf(e) # <<>> THEN RaisedError(ConfigErrorOf(e))
    ELSE IF net.kind # "response" \/ ~RespOk(net.status) THEN Returned(<<>>)
    ELSE ReplyOfBody(net)

\* score_candidate(prompt) with the configuration e, meeting net.
ScoreCandidate(e, net) ==
    IF ConfigErrorOf(e) # <<>> THEN RaisedError(ConfigErrorOf(e))
    ELSE IF net.kind # "response"
    THEN RaisedError(<<"Error calling Cloudflare AI API: ">> \o net.msg)
    ELSE IF ~RespOk(net.status)
    THEN RaisedError(<<"Cloudflare AI API returned HTTP ">> \o DigitsOf(net.status)
                     \o <<": ">> \o Slice(net.text, 0, ErrorTextLen))
    ELSE ReplyOfBody(net)

\* call_llm(prompt, llm_client=None): the default backend be, meeting net.
CallDefault(be, e, net) ==
    IF be = "unimportable"
    THEN RaisedError(<<"No llm_client provided and llm_backend is unavailable">>)
    ELSE IF be = "no_score_candidate"
    THEN RaisedError(<<"llm_backend.score_candidate not implemented">>)
    ELSE ScoreCandidate(e, net)

(***************************************************************************)
(* The report file of app.py: a sequence of lines, each a text.  The floats *)
(* of the model are whole numbers or NaN.                                   *)
(***************************************************************************)
\* Width of the rule under the title.
RuleWidth == 70
ReportHeader ==
    <<<<"RESUME RANKING RESULTS">>, [i \in 1..RuleWidth |-> "="], <<>>>>

\* f"{score:.1f}" for a float
Format1f(v) == IF IsNaN(v) THEN <<"n", "a", "n">> ELSE DigitsOf(v.n) \o <<".", "0">>

\* Mutant of ReportScoreLine: a score of zero is reported as absent.
ReportScoreLineFalsy(score) ==
    IF Truthy(score) THEN <<"   Score: ">> \o Format1f(score) \o <<"/10">>
    ELSE <<"   Score: N/A">>

\* f"   Score: {score:.1f}/10\n" if score is not None else "   Score: N/A\n"
ReportScoreLine(score) ==
    IF score # None THEN <<"   Score: ">> \o Format1f(score) \o <<"/10">>
    ELSE <<"   Score: N/A">>

\* The lines written for one result.
ReportEntry(rank, r) ==
    <<DigitsOf(rank) \o <<". ">> \o StrOf(r.name),
      ReportScoreLine(r.score_10),
      <<"   Passed Required: ", IF Truthy(r.passed_required) THEN "Yes" ELSE "No">>>>
    \o (IF Truthy(r.explanation) THEN <<<<"   ">> \o StrOf(r.explanation)>> ELSE <<>>)
    \o <<<<>>>>

RECURSIVE ReportEntries(_, _)
\* for rank, result in enumerate(results, start=1): the entries from rank on.
ReportEntries(rs, rank) ==
    IF rank > Len(rs) THEN <<>>
    ELSE ReportEntry(rank, rs[rank]) \o ReportEntries(rs, rank + 1)

ReportOf(rs) == ReportHeader \o ReportEntries(rs, 1)

(***************************************************************************)
(* sorted(results, key=sort_key): the list sort of CPython on fewer than   *)
(* 64 items (one natural run, then binary insertion), which is stable.     *)
(***************************************************************************)
\* -(x or 0), as [nan, v]
Negated(x) ==
    IF ~Truthy(x) THEN [nan |-> FALSE, v |-> 0]
    ELSE IF IsNaN(x) THEN [nan |-> TRUE, v |-> 0]
    ELSE [nan |-> FALSE, v |-> 0 - x.n]

\* (r["llm_score"] is None, -(r["llm_score"] or 0))
sort_key(r) == [none |-> r.llm_score = None, neg |-> Negated(r.llm_score)]

\* a < b on key tuples: the first items that differ decide; NaN equals and precedes nothing.
KeyLt(a, b) ==
    IF a.none # b.none THEN b.none
    ELSE IF a.neg.nan \/ b.neg.nan THEN FALSE
    ELSE a.neg.v < b.neg.v

RECURSIVE CountRun(_, _, _)
\* count_run: the last index of the run that starts at 1 and has reached i.
CountRun(seq, i, descending) ==
    IF i = Len(seq) THEN i
    ELSE IF KeyLt(sort_key(seq[i + 1]), sort_key(seq[i])) = descending
         THEN CountRun(seq, i + 1, descending)
         ELSE i

Reverse(seq) == [i \in 1..Len(seq) |-> seq[Len(seq) + 1 - i]]

RECURSIVE BinarySearch(_, _, _, _)
\* The insertion point of pivot in seq[l+1..r] (0-based l, r as in binarysort).
BinarySearch(seq, pivot, l, r) ==
    IF l >= r THEN l
    ELSE LET p == l + ((r - l) \div 2)
         IN IF KeyLt(sort_key(pivot), sort_key(seq[p + 1]))
            THEN BinarySearch(seq, pivot, l, p)
            ELSE BinarySearch(seq, pivot, p + 1, r)

RECURSIVE BinarySort(_, _)
\* binarysort: seq[1..start-1] is sorted; insert the rest one by one.
BinarySort(seq, start) ==
    IF start > Len(seq) THEN seq
    ELSE LET at == BinarySearch(seq, seq[start], 0, start - 1)
             moved == SubSeq(seq, 1, at) \o <<seq[start]>> \o SubSeq(seq, at + 1, start - 1)
                      \o SubSeq(seq, start + 1, Len(seq))
         IN BinarySort(moved, start + 1)

Sorted(seq) ==
    IF Len(seq) < 2 THEN seq
    ELSE LET descending == KeyLt(sort_key(seq[2]), sort_key(seq[1]))
             n == CountRun(seq, 2, descending)
             run == IF descending
                    THEN Reverse(SubSeq(seq, 1, n)) \o SubSeq(seq, n + 1, Len(seq))
                    ELSE seq
         IN BinarySort(run, n + 1)

(***************************************************************************)
(* Inputs of the model: reply texts and candidates.                        *)
(***************************************************************************)
Str(chars) == <<QUOTE>> \o chars \o <<QUOTE>>
Pair(key, value) == Str(key) \o <<":">> \o value
Obj1(p1) == <<"{">> \o p1 \o <<"}">>
Obj2(p1, p2) == <<"{">> \o p1 \o <<",">> \o p2 \o <<"}">>
Obj3(p1, p2, p3) == <<"{">> \o p1 \o <<",">> \o p2 \o <<",">> \o p3 \o <<"}">>
Obj4(p1, p2, p3, p4) ==
    <<"{">> \o p1 \o <<",">> \o p2 \o <<",">> \o p3 \o <<",">> \o p4 \o <<"}">>
Obj5(p1, p2, p3, p4, p5) ==
    <<"{">> \o p1 \o <<",">> \o p2 \o <<",">> \o p3 \o <<",">> \o p4 \o <<",">> \o p5 \o <<"}">>
TRUE_ == <<"t", "r", "u", "e">>
FALSE_ == <<"f", "a", "l", "s", "e">>
NULL_ == <<"n", "u", "l", "l">>
JSON_TAG == <<"j", "s", "o", "n">>
\* An int literal too large for a float: 1 followed by FloatMaxDigits zeros.
HugeInt == [i \in 1..(FloatMaxDigits + 1) |-> IF i = 1 THEN "1" ELSE "0"]

\* Reply texts of the scorer: one per shape of reply the loop tells apart.
ReplyScore1 == Obj1(Pair(SCORE, <<"1">>))
ReplyFull ==
    Obj5(Pair(SCORE, <<"2">>), Pair(BREAKDOWN, Obj1(Pair(<<"a">>, <<"1">>))),
         Pair(PASSED_REQUIRED, TRUE_), Pair(REASONS, <<"[">> \o Str(<<"a">>) \o <<"]">>),
         Pair(EXPLANATION, Str(<<"a">>)))
ReplyZero ==
    Obj4(Pair(SCORE, <<"0">>), Pair(BREAKDOWN, <<"[", "1", "]">>),
         Pair(PASSED_REQUIRED, Str(<<"a">>)), Pair(REASONS, Str(<<"a">>)))
ReplyBoolScore ==
    Obj3(Pair(SCORE, TRUE_), Pair(PASSED_REQUIRED, <<"0">>), Pair(REASONS, Str(<<>>)))
ReplyStrScore == Obj2(Pair(SCORE, Str(<<"a">>)), Pair(REASONS, <<"0">>))
ReplyNullScore ==
    Obj3(Pair(SCORE, NULL_), Pair(PASSED_REQUIRED, FALSE_), Pair(REASONS, FALSE_))
ReplyListScore == Obj2(Pair(SCORE, <<"[", "1", "]">>), Pair(REASONS, <<"{", "}">>))
ReplyDictScore == Obj2(Pair(SCORE, <<"{", "}">>), Pair(REASONS, <<"2">>))
ReplyNaN == Obj1(Pair(SCORE, <<"N", "a", "N">>))
ReplyHuge == Obj1(Pair(SCORE, HugeInt))
ReplyEmpty == <<"{", "}">>
ReplyFenced == Fence \o JSON_TAG \o <<NL>> \o ReplyScore1 \o <<NL>> \o Fence
ReplyTruncated == SubSeq(ReplyScore1, 1, Len(ReplyScore1) - 1)
ReplyBroken == <<"{">> \o Str(SCORE) \o <<":", "}">>

Replies ==
    {ReplyScore1, ReplyFull, ReplyZero, ReplyBoolScore, ReplyStrScore, ReplyNullScore,
     ReplyListScore, ReplyDictScore, ReplyNaN, ReplyHuge, ReplyEmpty, ReplyFenced,
     ReplyTruncated, ReplyBroken}

\* str(e) of the errors the scorer raises (transport failure, timeout).
ScorerErrors == {<<"transport error">>}

\* The CLOUDFLARE_* values: each one set or empty.
EnvValues(name) == {<<>>, <<name>>}
Envs ==
    [account : EnvValues("acct"), token : EnvValues("tok"), model : EnvValues("@cf/model")]
FullEnv == [account |-> <<"acct">>, token |-> <<"tok">>, model |-> <<"@cf/model">>]

Backends == {"ok", "unimportable", "no_score_candidate"}

\* Decoded bodies of a response.  Where the code looks for the reply they hold a
\* string, an empty value or nothing, so the reply extracted is always a string.
Body(result) == PyDict(<<[k |-> <<"result">>, v |-> result]>>)
Field(key, v) == PyDict(<<[k |-> key, v |-> v]>>)
Datas ==
    {Body(Field(<<"response">>, PyStr(ReplyScore1))),
     Body(Field(<<"response">>, Field(<<"content">>, PyStr(ReplyZero)))),
     Body(Field(<<"response">>, Field(<<"message">>, PyStr(ReplyNaN)))),
     Body(Field(<<"output">>, PyStr(ReplyFull))),
     Body(Field(<<"output_text">>, PyStr(ReplyHuge))),
     Body(PyStr(ReplyBroken)),
     Body(Field(<<"response">>, PyStr(<<>>))),
     PyDict(<<>>),
     PyList(<<>>)}

\* The behaviours of the network one invocation can meet.
Nets ==
    {NetFailure("exception", <<"connection refused">>),
     NetFailure("timeout", <<"read timed out">>),
     Response(404, <<"not found">>, FALSE, None),
     Response(503, <<>>, FALSE, None),
     Response(200, <<>>, FALSE, None),
     Response(304, <<>>, TRUE, Body(Field(<<"response">>, PyStr(ReplyStrScore))))}
    \cup {Response(200, <<>>, TRUE, d) : d \in Datas}

FreeAlphabet == {"{", "}", BACKTICK, NL, "a"}
\* Every text over FreeAlphabet of at most MaxLen characters.
FreeTexts == UNION {[1..n -> FreeAlphabet] : n \in 0..MaxLen}

\* Candidate i as app.py builds it: an id and a name.
Candidate(i) ==
    PyDict(<<[k |-> ID, v |-> PyStr(<<"r">> \o DigitsOf(i))],
             [k |-> NAME, v |-> PyStr(<<"c">> \o DigitsOf(i))]>>)
CandidateList(n) == [i \in 1..n |-> Candidate(i)]

\* Most calls made on the same objects in a function run.
MaxCalls == 2

\* Candidate mappings given to normalize_candidate and build_prompt_for_candidate.
Dict1(k1, v1) == PyDict(<<[k |-> k1, v |-> v1]>>)
Dict2(k1, v1, k2, v2) == PyDict(<<[k |-> k1, v |-> v1], [k |-> k2, v |-> v2]>>)
CandAllKeys ==
    PyDict(<<[k |-> AVAILABLE_TYPES_OF_WORK, v |-> PyList(<<PyStr(<<"r">>)>>)],
             [k |-> EDUCATION, v |-> Dict1(<<"s">>, PyStr(<<"x">>))],
             [k |-> SKILLS, v |-> Dict1(<<"p">>, PyInt(<<"2">>))],
             [k |-> GENERAL_SKILLS, v |-> PyList(<<>>)],
             [k |-> PERSONAL_INFORMATION, v |-> PyDict(<<>>)]>>)
RawCandidates ==
    {PyDict(<<>>),
     Candidate(1),
     CandAllKeys,
     Dict1(SKILLS, None),
     Dict2(GENERAL_SKILLS, PyStr(<<"a", QUOTE, "\\", NL, "b">>), ID, PyInt(<<"7">>)),
     Dict2(EDUCATION, PyList(<<PyInt(<<"1">>), PyBool(TRUE), NaN, PyFloat(2)>>),
           <<"z">>, Dict1(<<"k">>, PyList(<<PyDict(<<>>), PyBool(FALSE)>>))),
     Dict1(PERSONAL_INFORMATION, PyStr(<<>>)),
     Dict2(NAME, PyStr(<<"c">>), AVAILABLE_TYPES_OF_WORK, PyInt(<<"0">>))}

\* Rubric configurations.
Configs ==
    {PyDict(<<>>),
     Dict2(<<"target_field">>, PyStr(<<"s", "e">>), <<"weights">>, Dict1(<<"experience">>, PyInt(<<"1">>))),
     Dict1(<<"required_qualities">>, PyList(<<PyStr(<<"a">>), PyStr(<<"b">>)>>))}

\* Valid JSON objects for the parser: flat, nested, with braces and fences inside strings.
ObjEmpty == <<"{", "}">>
ObjFlat == Obj1(Pair(<<"a">>, <<"1">>))
ObjNested == Obj1(Pair(<<"a">>, Obj1(Pair(<<"b">>, <<"1">>))))
ObjNestedEmpty == Obj1(Pair(<<"a">>, <<"{", "}">>))
ObjBraceInString == Obj1(Pair(<<"a">>, Str(<<"}">>)))
ObjListOfObj == Obj1(Pair(<<"a">>, <<"[", "{", "}", "]">>))
ObjSpaced == <<"{", NL, " ">> \o Str(<<"a">>) \o <<" ", ":", " ", "1", NL, "}">>
ObjFenceInString == Obj1(Pair(<<"a">>, Str(Fence)))
ObjTwoKeys == Obj2(Pair(<<"a">>, <<"1">>), Pair(<<"b">>, Obj1(Pair(<<"a">>, <<"2">>))))
Objects ==
    {ObjEmpty, ObjFlat, ObjNested, ObjNestedEmpty, ObjBraceInString, ObjListOfObj,
     ObjSpaced, ObjFenceInString, ObjTwoKeys, ReplyFull}

\* J in a fenced code block: an opening fence line, with or without a tag, and a closing fence.
Fenced(J) ==
    {open \o <<NL>> \o J \o close :
        open \in {Fence, Fence \o JSON_TAG, <<" ">> \o Fence \o JSON_TAG},
        close \in {<<NL>> \o Fence, Fence, <<NL>> \o Fence \o <<NL>>}}
\* J with its last character, the closing brace, removed.
Truncated(J) == SubSeq(J, 1, Len(J) - 1)

\* The inputs of the parser: a text, the object it stands for, and how it was made.
ParserInputs ==
    {[kind |-> "plain", given |-> J, reference |-> J] : J \in Objects}
    \cup {[kind |-> "truncated", given |-> Truncated(J), reference |-> J] : J \in Objects}
    \cup UNION {{[kind |-> "fenced", given |-> f, reference |-> J] : f \in Fenced(J)} : J \in Objects}
    \cup {[kind |-> "free", given |-> t, reference |-> t] : t \in FreeTexts}

(***************************************************************************)
(* State.                                                                  *)
(***************************************************************************)
VARIABLES
    candidates,   \* the list given to evaluate_candidates_with_llm
    scorer,       \* the reply texts the llm_client may return
    idx,          \* number of candidates the loop has finished
    raw,          \* the reply of call_llm for the current candidate
    parsed,       \* the object parsed from raw
    results,      \* the result list of the loop
    replies,      \* what the scorer did for each candidate so far
    pc,           \* "call", "parse", "canon", "done", "raised"; "idle" outside a run
    returned,     \* the list returned by evaluate_candidates_with_llm
    input,        \* parser run: [kind, given, reference]
    out,          \* parser run: parse_llm_json_response(input.given)
    refOut,       \* parser run: parse_llm_json_response(input.reference)
    client,       \* "injected": an llm_client callable is given; "default": llm_backend is used
    backend,      \* "ok", "unimportable" or "no_score_candidate": what import llm_backend gives
    env,          \* [account, token, model]: the CLOUDFLARE_* values of the constants module
    status,       \* exit status of the app.py process, -1 while it runs
    report,       \* the lines written to results/ranking_results.txt
    objs,         \* function run: the caller's [candidate, config] objects as they are now
    objs0,        \* function run: the same objects as they were before the first call
    calls         \* function run: [fn, ret] of every call made so far

vars ==
    <<candidates, scorer, idx, raw, parsed, results, replies, pc, returned, input, out, refOut,
      client, backend, env, status, report, objs, objs0, calls>>
loopVars == <<candidates, scorer, idx, raw, parsed, results, replies, pc, returned>>
parserVars == <<input, out, refOut>>
appVars == <<client, backend, env, status, report>>
funcVars == <<objs, objs0, calls>>

\* No parse has run yet (a ParseError always carries a message).
Pending == [ok |-> FALSE, val |-> None, msg |-> <<>>]
NoInput == [kind |-> "none", given |-> <<>>, reference |-> <<>>]

\* What happened for one candidate: the scorer raised err ("raised"), or replied text
\* ("replied"), which then parsed to an object ("parsed") or failed with err ("unparsed").
\* cand is the place of the candidate the scorer was invoked for, net what it met.
Replied(text, cand, net) ==
    [kind |-> "replied", text |-> text, err |-> <<>>, parsed |-> None, cand |-> cand, net |-> net]
Raised(e, cand, net) ==
    [kind |-> "raised", text |-> <<>>, err |-> e, parsed |-> None, cand |-> cand, net |-> net]
Parsed(reply, val) == [reply EXCEPT !.kind = "parsed", !.parsed = val]
Unparsed(reply, e) == [reply EXCEPT !.kind = "unparsed", !.err = e]

LoopInit(cands, texts) ==
    /\ candidates = cands
    /\ scorer = texts
    /\ idx = 0
    /\ raw = <<>>
    /\ parsed = None
    /\ results = <<>>
    /\ replies = <<>>
    /\ pc = "call"
    /\ returned = <<>>

\* A caller that passes an llm_client: no backend, no process, no report.
Library ==
    /\ client = "injected"
    /\ backend = "ok"
    /\ env = FullEnv
    /\ status = -1
    /\ report = <<>>
NoParse ==
    /\ input = NoInput
    /\ out = Pending
    /\ refOut = Pending
NoObjs == [candidate |-> None, config |-> None]
NoCalls ==
    /\ objs = NoObjs
    /\ objs0 = NoObjs
    /\ calls = <<>>

\* A run of evaluate_candidates_with_llm on up to MaxCands candidates.
Init ==
    /\ \E n \in 0..MaxCands : LoopInit(CandidateList(n), Replies)
    /\ Library /\ NoParse /\ NoCalls

\* A run on one candidate whose scorer may reply any free text.
TextInit ==
    /\ LoopInit(CandidateList(1), Replies \cup FreeTexts)
    /\ Library /\ NoParse /\ NoCalls

\* The parser alone, on one of ParserInputs.
ParseInit ==
    /\ candidates = <<>> /\ scorer = {} /\ idx = 0 /\ raw = <<>> /\ parsed = None
    /\ results = <<>> /\ replies = <<>> /\ pc = "idle" /\ returned = <<>>
    /\ input \in ParserInputs
    /\ out = Pending
    /\ refOut = Pending
    /\ Library /\ NoCalls

\* A run on one candidate with any client, backend and configuration.
BackendInit ==
    /\ \E cl \in {"injected", "default"} :
        /\ client = cl
        /\ LoopInit(CandidateList(1), IF cl = "injected" THEN {ReplyScore1, ReplyHuge, ReplyBroken} ELSE {})
    /\ backend \in Backends
    /\ env \in Envs
    /\ status = -1
    /\ report = <<>>
    /\ NoParse /\ NoCalls

\* A run of app.py: the resumes folder holds up to MaxCands files that load.
AppInit ==
    /\ \E n \in 0..MaxCands : candidates = CandidateList(n)
    /\ scorer = {} /\ idx = 0 /\ raw = <<>> /\ parsed = None
    /\ results = <<>> /\ replies = <<>> /\ pc = "startup" /\ returned = <<>>
    /\ client = "default"
    /\ backend = "ok"
    /\ env \in Envs
    /\ status = -1
    /\ report = <<>>
    /\ NoParse /\ NoCalls

\* The two functions alone, called on a candidate and a config.
FuncInit ==
    /\ candidates = <<>> /\ scorer = {} /\ idx = 0 /\ raw = <<>> /\ parsed = None
    /\ results = <<>> /\ replies = <<>> /\ pc = "idle" /\ returned = <<>>
    /\ Library /\ NoParse
    /\ \E c \in RawCandidates, cfg \in Configs :
        /\ objs = [candidate |-> c, config |-> cfg]
        /\ objs0 = [candidate |-> c, config |-> cfg]
    /\ calls = <<>>

(***************************************************************************)
(* The loop of evaluate_candidates_with_llm.  raw and parsed are dead      *)
(* between iterations and are reset when an iteration ends.                *)
(***************************************************************************)
\* Mutant of RecordFailure: the error is raised again and ends the run.
RecordFailureReraises(e) ==
    /\ pc' = "raised"
    /\ UNCHANGED <<idx, raw, parsed, results>>

\* Mutant of RecordFailure: the failed candidate is tried again.
RecordFailureRetries(e) ==
    /\ pc' = "call"
    /\ raw' = <<>>
    /\ parsed' = None
    /\ UNCHANGED <<idx, results>>

\* except Exception as e: results.append({... failure ...}); continue
RecordFailure(e) ==
    /\ results' = Append(results, FailureResult(candidates[idx + 1], e))
    /\ idx' = idx + 1
    /\ raw' = <<>>
    /\ parsed' = None
    /\ pc' = "call"

\* What the scorer can do in one invocation: [ok, val, net].  An injected client
\* returns one of the texts of scorer or raises; the default backend meets one of Nets.
Invocation(o, net) == [ok |-> o.ok, val |-> o.val, net |-> net]
CallOutcomes ==
    IF client = "injected"
    THEN {Invocation(Returned(t), NoNet) : t \in scorer}
         \cup {Invocation(RaisedError(e), NoNet) : e \in ScorerErrors}
    ELSE {Invocation(CallDefault(backend, env, net), net) : net \in Nets}

\* raw = call_llm(prompt, llm_client=llm_client) returns a reply.
CallReturns ==
    /\ pc = "call" /\ idx < Len(candidates)
    /\ \E o \in CallOutcomes :
        /\ o.ok
        /\ raw' = o.val
        /\ replies' = Append(replies, Replied(o.val, idx + 1, o.net))
    /\ pc' = "parse"
    /\ UNCHANGED <<candidates, scorer, idx, parsed, results, returned, parserVars, appVars, funcVars>>

\* raw = call_llm(prompt, llm_client=llm_client) raises.
CallRaises ==
    /\ pc = "call" /\ idx < Len(candidates)
    /\ \E o \in CallOutcomes :
        /\ ~o.ok
        /\ replies' = Append(replies, Raised(o.val, idx + 1, o.net))
        /\ RecordFailure(o.val)
    /\ UNCHANGED <<candidates, scorer, returned, parserVars, appVars, funcVars>>

Returns(p) ==
    /\ p.ok
    /\ parsed' = p.val
    /\ pc' = "canon"
    /\ replies' = [replies EXCEPT ![Len(replies)] = Parsed(@, p.val)]
    /\ UNCHANGED <<candidates, scorer, idx, raw, results, returned, parserVars, appVars, funcVars>>

\* parsed = parse_llm_json_response(raw) returns.
ParseSucceeds == pc = "parse" /\ Returns(ParseLlmJsonResponse(raw))

RaisesValueError(p) ==
    /\ ~p.ok
    /\ RecordFailure(p.msg)
    /\ replies' = [replies EXCEPT ![Len(replies)] = Unparsed(@, p.msg)]
    /\ UNCHANGED <<candidates, scorer, returned, parserVars, appVars, funcVars>>

\* parsed = parse_llm_json_response(raw) raises ValueError.
ParseFails == pc = "parse" /\ RaisesValueError(ParseLlmJsonResponse(raw))

AppendResult(c) ==
    /\ c.ok
    /\ results' = Append(results, c.val)
    /\ idx' = idx + 1
    /\ raw' = <<>>
    /\ parsed' = None
    /\ pc' = "call"
    /\ UNCHANGED <<candidates, scorer, replies, returned, parserVars, appVars, funcVars>>

\* The canonical record is built and appended.
Canonicalize == pc = "canon" /\ AppendResult(CanonicalResult(candidates[idx + 1], parsed, raw))

RaisesOverflow(c) ==
    /\ ~c.ok
    /\ pc' = "raised"
    /\ UNCHANGED <<candidates, scorer, idx, raw, parsed, results, replies, returned, parserVars, appVars, funcVars>>

\* float(score) raises OverflowError outside the try: the call ends without a list.
CanonicalizeRaises ==
    pc = "canon" /\ RaisesOverflow(CanonicalResult(candidates[idx + 1], parsed, raw))

\* return sorted(results, key=sort_key)
ReturnSorted ==
    /\ pc = "call" /\ idx = Len(candidates)
    /\ returned' = Sorted(results)
    /\ pc' = "done"
    /\ UNCHANGED <<candidates, scorer, idx, raw, parsed, results, replies, parserVars, appVars, funcVars>>

(***************************************************************************)
(* The parser applied to its inputs.                                       *)
(***************************************************************************)
ParseGiven ==
    /\ pc = "idle" /\ out = Pending
    /\ out' = ParseLlmJsonResponse(input.given)
    /\ UNCHANGED <<loopVars, input, refOut, appVars, funcVars>>

ParseReference ==
    /\ pc = "idle" /\ refOut = Pending
    /\ refOut' = ParseLlmJsonResponse(input.reference)
    /\ UNCHANGED <<loopVars, input, out, appVars, funcVars>>

(***************************************************************************)
(* The script app.py around the loop.                                      *)
(***************************************************************************)
Exit(code) ==
    /\ status' = code
    /\ pc' = "exited"
    /\ UNCHANGED <<candidates, scorer, idx, raw, parsed, results, replies, returned,
                   client, backend, env, parserVars, funcVars>>

\* if not is_ollama_installed(): sys.exit(1)
StartupConfigMissing ==
    /\ pc = "startup" /\ ~is_ollama_installed(env)
    /\ report' = report
    /\ Exit(1)

\* if not os.path.isdir(resume_folder): sys.exit(1)
StartupFolderMissing ==
    /\ pc = "startup" /\ is_ollama_installed(env)
    /\ report' = report
    /\ Exit(1)

\* if not candidates: sys.exit(0)
StartupNoCandidates ==
    /\ pc = "startup" /\ is_ollama_installed(env)
    /\ candidates = <<>>
    /\ report' = report
    /\ Exit(0)

\* results = evaluate_candidates_with_llm(candidates, config) is entered.
StartupEvaluate ==
    /\ pc = "startup" /\ is_ollama_installed(env)
    /\ candidates # <<>>
    /\ pc' = "call"
    /\ UNCHANGED <<candidates, scorer, idx, raw, parsed, results, replies, returned,
                   parserVars, appVars, funcVars>>

\* except Exception as e: sys.exit(1)
RankingFails ==
    /\ pc = "raised"
    /\ report' = report
    /\ Exit(1)

\* The report file is written and the script ends.
WriteReport ==
    /\ pc = "done"
    /\ report' = ReportOf(returned)
    /\ Exit(0)

Next ==
    \/ CallReturns
    \/ CallRaises
    \/ ParseSucceeds
    \/ ParseFails
    \/ Canonicalize
    \/ CanonicalizeRaises
    \/ ReturnSorted

(***************************************************************************)
(* The prompt functions applied to the caller's objects.                   *)
(***************************************************************************)
Called(fn, ret) == [fn |-> fn, ret |-> ret]

NormalizeReturns(r) ==
    /\ calls' = Append(calls, Called("normalize_candidate", r.ret))
    /\ objs' = [objs EXCEPT !.candidate = r.raw]
    /\ UNCHANGED <<loopVars, parserVars, appVars, objs0>>

\* normalize_candidate(candidate)
NormalizeCall ==
    /\ pc = "idle" /\ objs # NoObjs /\ Len(calls) < MaxCalls
    /\ NormalizeReturns(NormalizeCandidate(objs.candidate))

BuildPromptReturns(r) ==
    /\ calls' = Append(calls, Called("build_prompt_for_candidate", r.ret))
    /\ objs' = [candidate |-> r.candidate, config |-> r.config]
    /\ UNCHANGED <<loopVars, parserVars, appVars, objs0>>

\* build_prompt_for_candidate(candidate, config)
BuildPromptCall ==
    /\ pc = "idle" /\ objs # NoObjs /\ Len(calls) < MaxCalls
    /\ BuildPromptReturns(BuildPrompt(objs.candidate, objs.config))

FuncNext ==
    \/ NormalizeCall
    \/ BuildPromptCall

AppNext ==
    \/ StartupConfigMissing
    \/ StartupFolderMissing
    \/ StartupNoCandidates
    \/ StartupEvaluate
    \/ Next
    \/ RankingFails
    \/ WriteReport

ParseNext ==
    \/ ParseGiven
    \/ ParseReference

Spec == Init /\ [][Next]_vars
TextSpec == TextInit /\ [][Next]_vars
BackendSpec == BackendInit /\ [][Next]_vars
AppSpec == AppInit /\ [][AppNext]_vars
FuncSpec == FuncInit /\ [][FuncNext]_vars
ParseSpec == ParseInit /\ [][ParseNext]_vars

(***************************************************************************)
(* Properties.  results stays in input order (sorted() builds a new list), *)
(* so results[i] and replies[i] belong to candidates[i].                   *)
(***************************************************************************)
\* The scorer raised for candidate i, or its reply did not parse.
Failed(i) == replies[i].kind \in {"raised", "unparsed"}
\* The reply of candidate i parsed to an object, replies[i].parsed.
Succeeded(i) == replies[i].kind = "parsed"
HasKey(d, key) == \E n \in 1..Len(d.items) : d.items[n].k = key
\* The place in the input of the candidate a result belongs to.
InputPos(r) == CHOOSE i \in 1..Len(candidates) : Get(candidates[i], ID, None) = r.id
IsFailureShape(r) ==
    /\ r.llm_score = None /\ r.score_10 = None
    /\ r.passed_required = PyBool(FALSE)
    /\ r.breakdown = PyDict(<<>>)
    /\ r.reasons.t = "list" /\ Len(r.reasons.items) = 1 /\ r.reasons.items[1].t = "str"

\* C1: a run on N candidates ends by returning exactly N results, whatever the
\* scorer replied or raised.
C1_Cardinality ==
    pc \in {"done", "raised"} => (pc = "done" /\ Len(returned) = Len(candidates))

\* C2: a failed invocation or parse for candidate i does not end the run: the record
\* of candidate i has absent scores, passed_required false, an empty breakdown
\* and exactly one reason naming the error; the loop goes on to candidate i + 1; and
\* the record of every candidate that did not fail is the one its own reply gives.
C2_FailureIsolated ==
    /\ Len(results) = idx
    /\ \A i \in 1..Len(replies) :
        Failed(i) =>
            /\ i <= Len(results)
            /\ pc = "raised" => i < Len(replies)
            /\ IsFailureShape(results[i])
            /\ results[i].reasons.items[1].s = <<"LLM error: ">> \o replies[i].err
    /\ \A j \in 1..Len(results) :
        Succeeded(j) =>
            results[j] = CanonicalResult(candidates[j], replies[j].parsed, replies[j].text).val
    /\ pc = "done" => Len(results) = Len(candidates)

\* C2 witness: three candidates, the second failed, the first and third are scored.
C2_Witness ==
    /\ pc = "done" /\ Len(results) = 3
    /\ replies[2].kind = "raised"
    /\ Succeeded(1) /\ Succeeded(3)
    /\ results[1].llm_score # None /\ results[3].llm_score # None

\* C3: the returned list is in descending order of score, the results without a
\* score come last, and equal scores (and results without a score) keep input order.
C3_Ordered ==
    pc = "done" =>
        \A a, b \in 1..Len(returned) :
            a < b =>
                LET x == returned[a].llm_score
                    y == returned[b].llm_score
                IN /\ (x # None /\ y # None /\ ~IsNaN(x) /\ ~IsNaN(y)) => x.n >= y.n
                   /\ x = None => y = None
                   /\ (x = y /\ ~IsNaN(x)) => InputPos(returned[a]) < InputPos(returned[b])

\* C4: a valid JSON object with its one trailing "}" removed parses to the object.
C4_RepairRecovers ==
    (input.kind = "truncated" /\ out # Pending /\ refOut # Pending) =>
        (out.ok /\ out = refOut)

\* C5: a valid JSON object in a fenced code block parses to the same object as the
\* object text alone.
C5_FenceTransparent ==
    (input.kind = "fenced" /\ out # Pending /\ refOut # Pending) => out = refOut

\* C5 witness: both a fenced non-empty object and the object alone have been parsed.
C5_Witness ==
    /\ input.kind = "fenced" /\ out # Pending /\ refOut # Pending
    /\ out.ok /\ out.val.items # <<>>

\* The reply has no "{", or no "}", or its last "}" precedes its first "{".
NoPair(text) ==
    \/ Find(text, "{") = -1
    \/ RFind(text, "}") = -1
    \/ RFind(text, "}") < Find(text, "{")

\* C6: a reply without a "{" ... "}" pair never reaches the canonicalization step:
\* the parser fails with "no JSON object found" and the record of the candidate is
\* the failure record with that reason, without a score.
C6_NoObjectFails ==
    /\ pc = "canon" => ~NoPair(raw)
    /\ \A i \in 1..Len(results) :
        (replies[i].kind # "raised" /\ NoPair(replies[i].text)) =>
            /\ results[i].llm_score = None /\ results[i].score_10 = None
            /\ results[i].raw_llm_output = None
            /\ results[i].reasons = PyList(<<PyStr(<<"LLM error: ">> \o NoObjectMsg)>>)

\* C6 witness: the record of a reply that has a "{" and a "}" in the wrong order.
C6_Witness ==
    /\ Len(results) = 1 /\ replies[1].kind # "raised"
    /\ Find(replies[1].text, "{") > RFind(replies[1].text, "}")
    /\ RFind(replies[1].text, "}") # -1

\* C7: llm_score is present exactly when the score of the reply is a JSON number
\* (then llm_score is that number and score_10 is ten times it); for a missing, null,
\* string, boolean, list or object score both are absent.
C7_ScoreOnlyIfNumber ==
    \A i \in 1..Len(results) :
        Succeeded(i) =>
            LET score == Get(replies[i].parsed, SCORE, None)
            IN IF score.t \in {"int", "float"}
               THEN /\ results[i].llm_score = ToFloat(score).val
                    /\ results[i].score_10 = ToFloat(Times10(score)).val
               ELSE results[i].llm_score = None /\ results[i].score_10 = None

\* C8: a reasons value that is a list is kept, and any other value that is present
\* (falsy ones included) is wrapped into a list of one element.
C8_ReasonsKept ==
    \A i \in 1..Len(results) :
        (Succeeded(i) /\ HasKey(replies[i].parsed, REASONS)) =>
            LET given == Get(replies[i].parsed, REASONS, None)
            IN /\ given.t = "list" => results[i].reasons = given
               /\ given.t \notin {"list", "NoneType"} => Len(results[i].reasons.items) = 1

\* C9: passed_required is a boolean in every result, false for a failed candidate
\* and false for a parsed reply without the key.
C9_PassedIsBool ==
    \A i \in 1..Len(results) :
        /\ results[i].passed_required \in {PyBool(TRUE), PyBool(FALSE)}
        /\ Failed(i) => results[i].passed_required = PyBool(FALSE)
        /\ (Succeeded(i) /\ ~HasKey(replies[i].parsed, PASSED_REQUIRED)) =>
                results[i].passed_required = PyBool(FALSE)

\* C9 witness: a failed candidate, a reply without the key, and a reply whose
\* passed_required is a string have all been recorded.
C9_Witness ==
    /\ Len(results) = 3
    /\ Failed(1)
    /\ Succeeded(2) /\ ~HasKey(replies[2].parsed, PASSED_REQUIRED)
    /\ Succeeded(3) /\ Get(replies[3].parsed, PASSED_REQUIRED, None).t = "str"

\* C10: the canonicalization step never raises, whatever object was parsed.
C10_NeverRaises == pc # "raised"

\* The invocation met a failure of the backend: none is available, the transport
\* raised or timed out, or the response has an error status.
BackendFailed(r) ==
    \/ backend # "ok"
    \/ r.net.kind \in {"exception", "timeout"}
    \/ r.net.kind = "response" /\ r.net.status >= 400

\* The text t occurs in the text s.
Occurs(t, s) == \E i \in 0..(Len(s) - Len(t)) : Slice(s, i, i + Len(t)) = t

C16_OneCallEach ==
    /\ Len(replies) <= Len(candidates)
    /\ \A i \in 1..Len(replies) : replies[i].cand = i
    /\ pc \in {"parse", "canon", "raised"} => Len(replies) = Len(results) + 1
    /\ pc \in {"call", "done"} => Len(replies) = Len(results)

\* C16 witness: three candidates were invoked, the first failed, and the run is over.
C16_Witness ==
    /\ pc = "done" /\ Len(replies) = 3
    /\ Failed(1) /\ Succeeded(2)

\* A step that ends an iteration of the loop: the scorer raised, or the step leaves
\* the parse or the canonicalization of a candidate.
IterationEnds ==
    /\ pc' \in {"call", "raised"}
    /\ pc \in {"parse", "canon"} \/ Len(replies') = Len(replies) + 1

\* C17: the result list is append-only: every iteration adds exactly one record, no
\* step changes or removes an earlier record, the raw output of a record made from a
\* parsed reply is the reply text, and the raw output of a failure record is absent.
C17_AppendOnly ==
    [][/\ Len(results) <= Len(results')
       /\ SubSeq(results', 1, Len(results)) = results
       /\ ~IterationEnds => results' = results
       /\ IterationEnds =>
            /\ Len(results') = Len(results) + 1
            /\ LET r == results'[Len(results')]
                   h == replies'[Len(replies')]
               IN /\ h.kind = "parsed" => r.raw_llm_output = PyStr(h.text)
                  /\ h.kind \in {"raised", "unparsed"} => r.raw_llm_output = None]_vars

\* A required value of the backend configuration is missing.
ConfigMissing == env.account = <<>> \/ env.token = <<>> \/ env.model = <<>>

RECURSIVE SplitEntries(_, _, _)
\* The lines after the header, cut into entries at the empty lines.
SplitEntries(lines, i, entry) ==
    IF i > Len(lines) THEN <<>>
    ELSE IF lines[i] = <<>> THEN <<entry>> \o SplitEntries(lines, i + 1, <<>>)
    ELSE SplitEntries(lines, i + 1, Append(entry, lines[i]))

\* C15: the report has one numbered entry per returned result, entry k made from
\* result k, and the score line of entry k is "Score: N/A" exactly when score_10 of
\* result k is absent, and its score_10 out of 10 otherwise.
C15_ReportFollowsResults ==
    (pc = "exited" /\ status = 0 /\ candidates # <<>>) =>
        LET entries == SplitEntries(report, Len(ReportHeader) + 1, <<>>)
        IN /\ Len(entries) = Len(returned)
           /\ \A k \in 1..Len(entries) :
                /\ entries[k][1] = DigitsOf(k) \o <<". ">> \o StrOf(returned[k].name)
                /\ (entries[k][2] = <<"   Score: N/A">>) <=> (returned[k].score_10 = None)
                /\ returned[k].score_10 # None =>
                        entries[k][2] = <<"   Score: ">> \o Format1f(returned[k].score_10)
                                        \o <<"/10">>

\* C15 witness: a report of three results, one with the score zero, one without a score.
C15_Witness ==
    /\ pc = "exited" /\ status = 0 /\ Len(returned) = 3
    /\ \E k \in 1..3 : returned[k].score_10 = PyFloat(0)
    /\ \E k \in 1..3 : returned[k].score_10 = None

DefaultedKeys ==
    {EDUCATION, SKILLS, GENERAL_SKILLS, PERSONAL_INFORMATION, AVAILABLE_TYPES_OF_WORK}

\* C13: normalize_candidate returns a mapping that has the five keys, with an empty
\* container for each key the input lacks, and every key and value of the input as
\* it was; the input mapping is left as it was, with no key added.
C13_NormalizeCopies ==
    /\ objs = objs0
    /\ \A i \in 1..Len(calls) :
        calls[i].fn = "normalize_candidate" =>
            LET given == objs0.candidate
                ret == calls[i].ret
            IN /\ ret.t = "dict"
               /\ \A key \in DefaultedKeys :
                    /\ HasKey(ret, key)
                    /\ ~HasKey(given, key) => Get(ret, key, None) \in {PyDict(<<>>), PyList(<<>>)}
               /\ \A n \in 1..Len(given.items) :
                    /\ HasKey(ret, given.items[n].k)
                    /\ Get(ret, given.items[n].k, None) = given.items[n].v
               /\ Len(ret.items) = Cardinality(DefaultedKeys \cup {given.items[n].k : n \in 1..Len(given.items)})

\* C13 witness: normalize_candidate was called on a mapping that lacks some of the
\* five keys and has others.
C13_Witness ==
    /\ Len(calls) >= 1 /\ calls[1].fn = "normalize_candidate"
    /\ ~HasKey(objs0.candidate, EDUCATION) /\ HasKey(objs0.candidate, GENERAL_SKILLS)

=============================================================================
